---------------------------- MODULE Spec2Model ----------------------------
(***************************************************************************)
(* The concurrent fetch pipeline of r10k-go (src/main.go) together with    *)
(* the GithubTarballModule backend (src/unnamed/part_000).                  *)
(*                                                                         *)
(* Tasks: the driver (main), the parser stage (processModuleFiles), the    *)
(* deduplicator (deduplicate), numWorkers downloader workers               *)
(* (downloadModules), the aggregator (parseResults), and the goroutines    *)
(* spawned to send one result or one metadata file.  All channels are      *)
(* unbuffered, so a send and its receive are one joint step.               *)
(***************************************************************************)
EXTENDS Integers, Sequences, FiniteSets, TLC

----------------------------------------------------------------------------
(* Bounds of the model *)

MaxWorkers == 2        \* largest --workers
MaxDecls == 2          \* longest manifest
MaxFaults == 1         \* environment faults (network, disk) injected in one run

(* Program constants *)

maxTries == 3

----------------------------------------------------------------------------
(* Module declarations *)

EnvRoot == "."
CacheRoot == ".cache"
NoFile == "<absent>"
Nil == "<nil>"

\* A module name is kept as the fields strings.FieldsFunc splits it into
\* (separators '/' and '-').
NameXMod == <<"x", "mod">>
NameYMod == <<"y", "mod">>
NameXDep == <<"x", "dep">>

\* The declarations a manifest or a metadata file can hold.
Catalog ==
  { [name |-> NameXMod, version |-> "v1", installPath |-> ""],
    [name |-> NameYMod, version |-> "v2", installPath |-> ""],
    [name |-> NameXMod, version |-> "v1", installPath |-> "site"],
    [name |-> NameXDep, version |-> "",   installPath |-> ""],
    [name |-> NameXDep, version |-> "v9", installPath |-> ""] }

\* The tags listing the archive host returns for every repository.
TagsListing ==
  << [Name |-> "v2", Tarball_url |-> "tarball/v2"],
     [Name |-> "v1", Tarball_url |-> "tarball/v1"] >>

Versions == {"v1", "v2", "v9"}

\* GithubTarballModule.TargetFolder
folderName(name) == name[Len(name)]

TargetFolder(m) ==
  IF m.installPath # ""
    THEN <<m.envRoot, m.installPath, folderName(m.name)>>
    ELSE <<m.envRoot, "modules", folderName(m.name)>>

\* GithubTarballModule.Hash: SHA-1 of the name, an injective image of it.
Hash(m) == <<"sha1">> \o m.name

\* path.Join(cache.folder, m.Hash())
CacheFolderOf(m) == <<CacheRoot>> \o Hash(m)

\* <cacheFolder>/<version>.tar.gz
Blob(m) == <<m.cacheFolder, m.version>>

Targets ==
  { TargetFolder([d EXCEPT !.envRoot = EnvRoot]) :
      d \in { [name |-> c.name, version |-> c.version,
               installPath |-> c.installPath, envRoot |-> EnvRoot] : c \in Catalog } }

Blobs ==
  { <<CacheFolderOf(c), v>> : c \in Catalog, v \in Versions }

----------------------------------------------------------------------------
(* Module files *)

Puppetfile == <<EnvRoot, "Puppetfile">>

MetadataPath(target) == target \o <<"metadata.json">>

\* The modules that ship a metadata.json: the one installed in modules/mod
\* declares x/dep, the one installed in site/mod does not parse.
HasMetadata(target) ==
  target \in { <<EnvRoot, "modules", "mod">>, <<EnvRoot, "site", "mod">> }

Malformed(target) == target = <<EnvRoot, "site", "mod">>

MetadataOf(target) ==
  IF HasMetadata(target) /\ ~Malformed(target)
    THEN << [name |-> NameXDep, version |-> "", installPath |-> ""] >>
    ELSE <<>>

\* NewMetadataFile: nil (exists FALSE) when the file cannot be opened.
NewMetadataFile(target, dsk) ==
  [filename |-> MetadataPath(target),
   exists |-> dsk[target].exists /\ HasMetadata(target),
   ok |-> ~Malformed(target),
   decls |-> MetadataOf(target)]

BoundedSeq(S, n) == UNION { [1..k -> S] : k \in 0..n }

Manifests == BoundedSeq(Catalog, MaxDecls)

----------------------------------------------------------------------------
(* Disk *)

Absent == [exists |-> FALSE, vfile |-> NoFile]

\* The disks a run can start from: nothing installed and an empty cache;
\* nothing installed and x/mod v1 cached; every target installed at v1.
FreshDisk == [t \in Targets |-> Absent]
EmptyCache == [b \in Blobs |-> "none"]
WarmCache ==
  [b \in Blobs |->
     IF b = <<(<<CacheRoot, "sha1">> \o NameXMod), "v1">> THEN "good" ELSE "none"]
InstalledDisk == [t \in Targets |-> [exists |-> TRUE, vfile |-> "v1"]]

InitialDisks ==
  { [disk |-> FreshDisk, cache |-> EmptyCache],
    [disk |-> FreshDisk, cache |-> WarmCache],
    [disk |-> InstalledDisk, cache |-> EmptyCache] }

\* Mutant: a declaration without version compared with the .version file too
IsUpToDateVersionOnly(m, dsk) ==
  LET t == dsk[TargetFolder(m)] IN
  IF ~t.exists THEN FALSE
  ELSE IF t.vfile = NoFile THEN FALSE
  ELSE t.vfile = m.version

\* GithubTarballModule.IsUpToDate
IsUpToDate(m, dsk) ==
  LET t == dsk[TargetFolder(m)] IN
  IF ~t.exists THEN FALSE
  ELSE IF m.version = "" THEN TRUE
  ELSE IF t.vfile = NoFile THEN FALSE
  ELSE t.vfile = m.version


----------------------------------------------------------------------------
(* State *)

VARIABLES
  proc,            \* "running", "exited" (os.Exit in main), "fatal" (log.Fatal), "panicked"
  exitCode,        \* the value handed to os.Exit
  mainpc,          \* where the driver stands in main
  nErr,            \* main's nErr
  pf,              \* the manifest file: [exists, ok, decls]
  noDeps,          \* --no-deps
  numWorkers,      \* --workers
  disk0, cache0,   \* disk and cache as the run found them
  wg,              \* the pending-work counter (sync.WaitGroup)
  closed,          \* channels closed so far, in closing order
  ppc, mf, pidx,   \* parser stage: position, file being processed, next declaration
  dpc, dcur,       \* deduplicator: position, declaration in hand
  modules,         \* deduplicate's map of target folders seen
  wpc, wcur, wi, wurl,   \* per worker: position, m, loop index i, url
  wbody,           \* per worker: the response whose body downloadToCache copies
  resultSenders,   \* goroutines blocked in  results <- ...
  mfSenders,       \* goroutines blocked in  metadataFiles <- mf
  apc, acur,       \* aggregator: position, result in hand
  downloadErrors,  \* parseResults' counter
  disk, cache,     \* target folders; archive blobs
  faults,          \* environment faults injected so far
  \* history
  emitted,         \* ids of the declarations parsers emitted
  processed,       \* id -> number of Processed() calls
  arrivals,        \* declarations in their order of arrival at deduplicate
  taken,           \* ids received by workers, in order
  ops,             \* id -> what the worker did for it, in order
  sent,            \* every result a worker handed to a sender goroutine
  logs,            \* id -> log lines of the aggregator, in order
  placed,          \* filenames received from the module-file channel, in order
  aggAdds          \* wg.Add calls made by the aggregator

mainVars == <<mainpc, nErr, closed>>
parserVars == <<ppc, mf, pidx>>
dedupVars == <<dpc, dcur, modules>>
pipeVars == <<mainVars, parserVars, dedupVars>>
fsVars == <<disk, cache, faults>>
workerVars == <<wpc, wcur, wi, wurl, wbody>>
aggVars == <<apc, acur, downloadErrors>>
envVars == <<pf, noDeps, numWorkers, disk0, cache0>>
histVars == <<emitted, arrivals, taken, ops, sent, logs, placed, aggAdds>>

vars == <<proc, exitCode, pipeVars, envVars, wg, workerVars, resultSenders,
          mfSenders, aggVars, disk, cache, faults, processed, histVars>>

Workers == 1..numWorkers

CloseOrder == <<"modules", "modulesDeduplicated", "moduleFiles", "results">>

IsClosed(ch) == \E i \in 1..Len(closed) : closed[i] = ch

Running == proc = "running"

NoError == [err |-> FALSE, retryable |-> FALSE]

ManifestFiles ==
  { [exists |-> TRUE, ok |-> TRUE, decls |-> s] : s \in Manifests }
    \cup { [exists |-> TRUE, ok |-> FALSE, decls |-> <<>>],
           [exists |-> FALSE, ok |-> TRUE, decls |-> <<>>] }

Init ==
  /\ proc = "running"
  /\ exitCode = -1
  /\ mainpc = "NewPuppetFile"
  /\ nErr = 0
  /\ pf \in ManifestFiles
  /\ noDeps \in BOOLEAN
  /\ numWorkers \in 1..MaxWorkers
  /\ wg = 0
  /\ closed = <<>>
  /\ ppc = "recv" /\ mf = Nil /\ pidx = 1
  /\ dpc = "recv" /\ dcur = Nil
  /\ modules = {}
  /\ wpc = [w \in Workers |-> "recv"]
  /\ wcur = [w \in Workers |-> Nil]
  /\ wi = [w \in Workers |-> 0]
  /\ wurl = [w \in Workers |-> ""]
  /\ wbody = [w \in Workers |-> ""]
  /\ resultSenders = {}
  /\ mfSenders = {}
  /\ apc = "recv" /\ acur = Nil
  /\ downloadErrors = 0
  /\ \E d \in InitialDisks :
       /\ disk = d.disk /\ cache = d.cache
       /\ disk0 = d.disk /\ cache0 = d.cache
  /\ faults = 0
  /\ emitted = {}
  /\ processed = <<>>
  /\ arrivals = <<>>
  /\ taken = <<>>
  /\ ops = <<>>
  /\ sent = {}
  /\ logs = <<>>
  /\ placed = <<>>
  /\ aggAdds = 0

\* f with the sequence at key k extended by x (k is added when new)
Log(f, k, x) ==
  [j \in DOMAIN f \cup {k} |->
     IF j = k THEN (IF k \in DOMAIN f THEN Append(f[k], x) ELSE <<x>>) ELSE f[j]]

Count(f, k) == IF k \in DOMAIN f THEN f[k] ELSE 0

Bump(f, k) == [j \in DOMAIN f \cup {k} |-> IF j = k THEN Count(f, k) + 1 ELSE f[j]]

History(f, k) == IF k \in DOMAIN f THEN f[k] ELSE <<>>

\* m.Processed(): the done callback handed to Process releases one unit of
\* pending work; a WaitGroup driven below zero panics.
Processed(m) ==
  /\ processed' = Bump(processed, m.id)
  /\ IF wg > 0
       THEN wg' = wg - 1 /\ proc' = proc
       ELSE wg' = wg /\ proc' = "panicked"

----------------------------------------------------------------------------
(* Driver: main *)

\* if pf := NewPuppetFile(puppetfile); pf != nil { wg.Add(1); ...
MainNewPuppetFile ==
  /\ Running /\ mainpc = "NewPuppetFile"
  /\ IF pf.exists
       THEN wg' = wg + 1 /\ mainpc' = "send"
       ELSE wg' = wg /\ mainpc' = "Wait"
  /\ UNCHANGED <<proc, exitCode, nErr, closed, ppc, mf, pidx, dpc, dcur, modules,
                 envVars, workerVars, resultSenders, mfSenders, aggVars, disk,
                 cache, faults, processed, histVars>>

\* moduleFiles <- pf   meets   for mf := range moduleFiles
MainSendPuppetfile ==
  /\ Running /\ mainpc = "send" /\ ppc = "recv" /\ ~IsClosed("moduleFiles")
  /\ mainpc' = "Wait"
  /\ ppc' = "Process"
  /\ mf' = [filename |-> Puppetfile, exists |-> TRUE, ok |-> pf.ok, decls |-> pf.decls]
  /\ pidx' = 1
  /\ placed' = Append(placed, Puppetfile)
  /\ UNCHANGED <<proc, exitCode, nErr, closed, dpc, dcur, modules, envVars, wg,
                 workerVars, resultSenders, mfSenders, aggVars, disk, cache,
                 faults, processed, emitted, arrivals, taken, ops, sent, logs,
                 aggAdds>>

\* Mutant: the driver goes on to close the channels without waiting
WaitReturnsAtOnce(n) == TRUE

\* sync.WaitGroup.Wait blocks until the counter is zero
WaitReturns(n) == n = 0

\* wg.Wait()
MainWait ==
  /\ Running /\ mainpc = "Wait" /\ WaitReturns(wg)
  /\ mainpc' = "close"
  /\ UNCHANGED <<proc, exitCode, nErr, closed, ppc, mf, pidx, dpc, dcur, modules,
                 envVars, wg, workerVars, resultSenders, mfSenders, aggVars,
                 disk, cache, faults, processed, histVars>>

\* close(modules); close(modulesDeduplicated); close(moduleFiles); close(results)
MainClose ==
  /\ Running /\ mainpc = "close"
  /\ closed' = Append(closed, CloseOrder[Len(closed) + 1])
  /\ mainpc' = IF Len(closed) + 1 = Len(CloseOrder) THEN "done1" ELSE "close"
  /\ UNCHANGED <<proc, exitCode, nErr, ppc, mf, pidx, dpc, dcur, modules,
                 envVars, wg, workerVars, resultSenders, mfSenders, aggVars,
                 disk, cache, faults, processed, histVars>>

\* <-done; <-done   meets   done <- true,  which the parser stage and the
\* deduplicator each offer once the range loop over their closed input ends
MainRecvDone ==
  /\ Running /\ mainpc \in {"done1", "done2"}
  /\ \E stage \in {"parser", "dedup"} :
       IF stage = "parser"
         THEN ppc = "recv" /\ IsClosed("moduleFiles") /\ ppc' = "exited" /\ dpc' = dpc
         ELSE dpc = "recv" /\ IsClosed("modules") /\ dpc' = "exited" /\ ppc' = ppc
  /\ mainpc' = IF mainpc = "done1" THEN "done2" ELSE "errorCount"
  /\ UNCHANGED <<proc, exitCode, nErr, closed, mf, pidx, dcur, modules, envVars,
                 wg, workerVars, resultSenders, mfSenders, aggVars, disk, cache,
                 faults, processed, histVars>>

\* nErr := <-errorCount   meets   errorsCount <- downloadErrors,  which
\* parseResults offers once the range loop over the closed results ends
MainRecvErrorCount ==
  /\ Running /\ mainpc = "errorCount" /\ apc = "recv" /\ IsClosed("results")
  /\ nErr' = downloadErrors
  /\ apc' = "exited"
  /\ mainpc' = "Exit"
  /\ UNCHANGED <<proc, exitCode, closed, ppc, mf, pidx, dpc, dcur, modules,
                 envVars, wg, workerVars, resultSenders, mfSenders, acur,
                 downloadErrors, disk, cache, faults, processed, histVars>>

\* close(errorCount); os.Exit(nErr)
MainExit ==
  /\ Running /\ mainpc = "Exit"
  /\ proc' = "exited"
  /\ exitCode' = nErr
  /\ UNCHANGED <<pipeVars, envVars, wg, workerVars, resultSenders, mfSenders,
                 aggVars, disk, cache, faults, processed, histVars>>

----------------------------------------------------------------------------
(* Parser stage: processModuleFiles, and Process of a module file *)

\* The PuppetModule Process builds for declaration i of the file.
NewModule(file, i) ==
  [id |-> <<file.filename, i>>,
   name |-> file.decls[i].name,
   version |-> file.decls[i].version,
   installPath |-> file.decls[i].installPath,
   envRoot |-> "",
   cacheFolder |-> <<>>]

\* go func() { metadataFiles <- mf }()   meets   for mf := range moduleFiles
MetadataSend ==
  /\ Running /\ ppc = "recv" /\ ~IsClosed("moduleFiles")
  /\ \E file \in mfSenders :
       /\ mfSenders' = mfSenders \ {file}
       /\ mf' = file
       /\ placed' = Append(placed, file.filename)
  /\ ppc' = "Process"
  /\ pidx' = 1
  /\ UNCHANGED <<proc, exitCode, mainVars, dedupVars, envVars, wg, workerVars,
                 resultSenders, aggVars, fsVars, processed, emitted, arrivals,
                 taken, ops, sent, logs, aggAdds>>

\* Process emits the next declaration: one more unit of pending work, and
\* modules <- m   meets   for m := range in   of deduplicate.
ProcessEmit ==
  /\ Running /\ ppc = "Process" /\ mf.ok /\ pidx <= Len(mf.decls)
  /\ dpc = "recv" /\ ~IsClosed("modules")
  /\ wg' = wg + 1
  /\ dcur' = NewModule(mf, pidx)
  /\ dpc' = "got"
  /\ pidx' = pidx + 1
  /\ emitted' = emitted \cup {<<mf.filename, pidx>>}
  /\ UNCHANGED <<proc, exitCode, mainVars, ppc, mf, modules, envVars, workerVars,
                 resultSenders, mfSenders, aggVars, fsVars, processed, arrivals,
                 taken, ops, sent, logs, placed, aggAdds>>

\* Process has emitted everything: the unit counted for the file is released;
\* processModuleFiles closes the file and takes the next one.
ProcessReturn ==
  /\ Running /\ ppc = "Process" /\ mf.ok /\ pidx > Len(mf.decls)
  /\ IF wg > 0
       THEN wg' = wg - 1 /\ proc' = proc
       ELSE wg' = wg /\ proc' = "panicked"
  /\ ppc' = "recv"
  /\ mf' = Nil
  /\ pidx' = 1
  /\ UNCHANGED <<exitCode, mainVars, dedupVars, envVars, workerVars,
                 resultSenders, mfSenders, aggVars, fsVars, processed, histVars>>

\* Process returned an error: ErrMalformedPuppetfile is fatal, anything else
\* is logged and the file closed.
ProcessError ==
  /\ Running /\ ppc = "Process" /\ ~mf.ok
  /\ IF mf.filename = Puppetfile
       THEN proc' = "fatal" /\ ppc' = ppc /\ mf' = mf
       ELSE proc' = proc /\ ppc' = "recv" /\ mf' = Nil
  /\ UNCHANGED <<exitCode, mainVars, pidx, dedupVars, envVars, wg, workerVars,
                 resultSenders, mfSenders, aggVars, fsVars, processed, histVars>>

----------------------------------------------------------------------------
(* Deduplicator: deduplicate *)

\* Mutant: the map never consulted
IsDuplicateNever(m, seen) == FALSE

\* Mutant: the map looked up by the module's hash, not its target folder
IsDuplicateByHash(m, seen) == Hash(m) \in seen

\* if _, ok := modules[m.TargetFolder()]; ok
IsDuplicate(m, seen) == TargetFolder(m) \in seen

\* SetEnvRoot, SetCacheFolder, then drop (Processed) or record and go on to send
DedupCheck ==
  /\ Running /\ dpc = "got"
  /\ LET m == [dcur EXCEPT !.envRoot = EnvRoot, !.cacheFolder = CacheFolderOf(dcur)] IN
       /\ arrivals' = Append(arrivals, m)
       /\ IF IsDuplicate(m, modules)
            THEN /\ Processed(m)
                 /\ dpc' = "recv"
                 /\ dcur' = Nil
                 /\ UNCHANGED modules
            ELSE /\ modules' = modules \cup {TargetFolder(m)}
                 /\ dcur' = m
                 /\ dpc' = "send"
                 /\ UNCHANGED <<proc, wg, processed>>
  /\ UNCHANGED <<exitCode, mainVars, parserVars, envVars, workerVars, resultSenders,
                 mfSenders, aggVars, fsVars, emitted, taken, ops, sent, logs,
                 placed, aggAdds>>

----------------------------------------------------------------------------
(* Downloader workers: downloadModules, and GithubTarballModule.Download *)

\* What the environment may answer: a fault only while the budget lasts.
Answers(good, bad) == IF faults < MaxFaults THEN good \cup bad ELSE good

Spend(answer, good) == IF answer \in good THEN faults ELSE faults + 1

\* DownloadResult{err, skipped, willRetry, m}; n tells the results of one
\* declaration apart.
Result(e, skip, retry, m, n) ==
  [err |-> e.err, retryable |-> e.retryable, skipped |-> skip,
   willRetry |-> retry, m |-> m, n |-> n]

\* go func(...) { results <- DownloadResult{...} }(...)
Spawn(r) ==
  /\ resultSenders' = resultSenders \cup {r}
  /\ sent' = sent \cup {r}

\* The worker goes back to  for m := range c
NextModule(w) ==
  /\ wpc' = [wpc EXCEPT ![w] = "recv"]
  /\ wcur' = [wcur EXCEPT ![w] = Nil]
  /\ wi' = [wi EXCEPT ![w] = 0]
  /\ wurl' = [wurl EXCEPT ![w] = ""]
  /\ wbody' = [wbody EXCEPT ![w] = ""]

\* Mutant: the loop body run in a goroutine of its own, so the worker is
\* back at the receive at once
AtRangeAtOnce(w) == TRUE

\* for m := range c: a worker receives only at the top of its loop, after
\* the body for the previous module has run to its end
AtRange(w) == wpc[w] = "recv"

\* out <- m  of deduplicate  meets  for m := range c  of a worker, which
\* goes on to  if m.IsUpToDate() { go func... skipped: true ...; continue }
DedupSend(w) ==
  /\ Running /\ dpc = "send" /\ AtRange(w) /\ ~IsClosed("modulesDeduplicated")
  /\ taken' = Append(taken, dcur.id)
  /\ dpc' = "recv"
  /\ dcur' = Nil
  /\ ops' = Log(ops, dcur.id, "IsUpToDate")
  /\ IF IsUpToDate(dcur, disk)
       THEN /\ Spawn(Result(NoError, TRUE, FALSE, dcur, 0))
            /\ UNCHANGED workerVars
       ELSE /\ wpc' = [wpc EXCEPT ![w] = "RemoveAll"]
            /\ wcur' = [wcur EXCEPT ![w] = dcur]
            /\ UNCHANGED <<wi, wurl, wbody, resultSenders, sent>>
  /\ UNCHANGED <<proc, exitCode, mainVars, parserVars, modules, envVars, wg,
                 mfSenders, aggVars, fsVars, processed, emitted, arrivals, logs,
                 placed, aggAdds>>

\* Mutant: the folder left in place
RemoveNothing(dsk, t) == dsk

\* os.RemoveAll(m.TargetFolder()) without error: the folder is gone
RemoveAll(dsk, t) == [dsk EXCEPT ![t] = Absent]

\* if err := os.RemoveAll(m.TargetFolder()); err != nil { log.Fatalf(...) }
WorkerRemoveAll(w) ==
  /\ Running /\ wpc[w] = "RemoveAll"
  /\ \E answer \in Answers({"removed"}, {"error"}) :
       /\ faults' = Spend(answer, {"removed"})
       /\ IF answer = "removed"
            THEN /\ disk' = RemoveAll(disk, TargetFolder(wcur[w]))
                 /\ ops' = Log(ops, wcur[w].id, "RemoveAll")
                 /\ wpc' = [wpc EXCEPT ![w] = "downloadURL"]
                 /\ wi' = [wi EXCEPT ![w] = 0]
                 /\ proc' = proc
            ELSE /\ proc' = "fatal"
                 /\ UNCHANGED <<disk, ops, wpc, wi>>
  /\ UNCHANGED <<exitCode, pipeVars, envVars, wg, wcur, wurl, wbody, resultSenders,
                 mfSenders, aggVars, cache, processed, emitted, arrivals, taken,
                 sent, logs, placed, aggAdds>>

\* Mutant: the loop bound off by one
ShouldRetryOneMore(e, i) == e.err /\ i < maxTries /\ e.retryable

\* for i := 0; derr.error != nil && i < maxTries-1 && derr.retryable; i++
ShouldRetry(e, i) == e.err /\ i < maxTries - 1 /\ e.retryable

\* How a Download call ended, for the history
Returned(e) ==
  IF ~e.err THEN "return nil"
  ELSE IF e.retryable THEN "return retryable"
  ELSE "return error"

\* derr = m.Download() has returned e: a will-retry result, the sleep and
\* another Download; or the failure or success result and the next module
AfterDownload(w, m, e) ==
  IF ShouldRetry(e, wi[w])
    THEN /\ Spawn(Result(e, FALSE, TRUE, m, wi[w] + 1))
         /\ wi' = [wi EXCEPT ![w] = wi[w] + 1]
         /\ wpc' = [wpc EXCEPT ![w] = "downloadURL"]
         /\ wcur' = [wcur EXCEPT ![w] = m]
         /\ wurl' = [wurl EXCEPT ![w] = ""]
         /\ wbody' = [wbody EXCEPT ![w] = ""]
    ELSE /\ Spawn(Result(e, FALSE, FALSE, m, 0))
         /\ NextModule(w)

\* The index of the first tag named v, 0 when there is none
TagIndex(v) ==
  IF \E i \in 1..Len(TagsListing) : TagsListing[i].Name = v
    THEN CHOOSE i \in 1..Len(TagsListing) :
           /\ TagsListing[i].Name = v
           /\ \A j \in 1..(i - 1) : TagsListing[j].Name # v
    ELSE 0

\* GithubTarballModule.downloadURL: the url, the version m ends with, the error
downloadURL(m, resp) ==
  IF resp # "200"
    THEN [url |-> "", version |-> m.version, err |-> TRUE, retryable |-> TRUE]
  ELSE IF m.version # ""
    THEN IF TagIndex(m.version) = 0
           THEN [url |-> "", version |-> m.version, err |-> TRUE, retryable |-> FALSE]
           ELSE [url |-> TagsListing[TagIndex(m.version)].Tarball_url,
                 version |-> m.version, err |-> FALSE, retryable |-> FALSE]
  ELSE [url |-> TagsListing[1].Tarball_url, version |-> TagsListing[1].Name,
        err |-> FALSE, retryable |-> FALSE]

\* if url, err = m.downloadURL(); err != nil { return DownloadError{err, true} }
DownloadURLFailed(inner) == [err |-> TRUE, retryable |-> TRUE]

\* Mutant: the cache never consulted
CacheMissAlways(m, blobs) == TRUE

\* if _, err = os.Stat(<blob>); err != nil
CacheMiss(m, blobs) == blobs[Blob(m)] = "none"

\* Download starts: the tags listing is requested and the url resolved
WorkerDownloadURL(w) ==
  /\ Running /\ wpc[w] = "downloadURL"
  /\ \E resp \in Answers({"200"}, {"error"}) :
       LET r == downloadURL(wcur[w], resp)
           m == [wcur[w] EXCEPT !.version = r.version]
           start == IF wcur[w].version # "" /\ cache[Blob(wcur[w])] # "none"
                      THEN Log(Log(ops, m.id, "Download"), m.id, "blob cached")
                      ELSE Log(ops, m.id, "Download")
           got == Log(start, m.id, "GET tags")
           did == IF resp = "200" /\ r.err THEN Log(got, m.id, "version not found") ELSE got IN
       /\ faults' = Spend(resp, {"200"})
       /\ IF r.err
            THEN /\ ops' = Log(did, m.id, Returned(DownloadURLFailed(r)))
                 /\ AfterDownload(w, m, DownloadURLFailed(r))
            ELSE /\ ops' = did
                 /\ wcur' = [wcur EXCEPT ![w] = m]
                 /\ wurl' = [wurl EXCEPT ![w] = r.url]
                 /\ wpc' = [wpc EXCEPT ![w] = "Stat"]
                 /\ UNCHANGED <<wi, wbody, resultSenders, sent>>
  /\ UNCHANGED <<proc, exitCode, pipeVars, envVars, wg, mfSenders, aggVars, disk,
                 cache, processed, emitted, arrivals, taken, logs, placed, aggAdds>>

Retryable == [err |-> TRUE, retryable |-> TRUE]
NonRetryable == [err |-> TRUE, retryable |-> FALSE]

\* The cache is looked up (os.Stat); on a miss the tarball is requested.  The
\* status of the response is not looked at: any response goes to
\* downloadToCache.
WorkerFetch(w) ==
  /\ Running /\ wpc[w] = "Stat"
  /\ LET m == wcur[w] IN
     IF CacheMiss(m, cache)
       THEN \E resp \in Answers({"200"}, {"connection error", "503"}) :
              /\ faults' = Spend(resp, {"200"})
              /\ IF resp = "connection error"
                   THEN /\ ops' = Log(Log(ops, m.id, "GET tarball"), m.id, Returned(Retryable))
                        /\ AfterDownload(w, m, Retryable)
                   ELSE /\ wpc' = [wpc EXCEPT ![w] = "Create"]
                        /\ wbody' = [wbody EXCEPT ![w] = resp]
                        /\ ops' = IF resp = "200"
                                    THEN Log(ops, m.id, "GET tarball")
                                    ELSE Log(Log(ops, m.id, "GET tarball"), m.id, "status 503")
                        /\ UNCHANGED <<wcur, wi, wurl, resultSenders, sent>>
       ELSE /\ wpc' = [wpc EXCEPT ![w] = "Open"]
            /\ UNCHANGED <<faults, ops, wcur, wi, wurl, wbody, resultSenders, sent>>
  /\ UNCHANGED <<proc, exitCode, pipeVars, envVars, wg, mfSenders, aggVars, disk,
                 cache, processed, emitted, arrivals, taken, logs, placed, aggAdds>>

\* The workers, other than w, that have created the blob b and not finished
\* copying into it
Writing(b, w) ==
  { v \in Workers \ {w} : wpc[v] = "Copy" /\ Blob(wcur[v]) = b }

\* downloadToCache, first half: os.MkdirAll and os.Create, which truncates the
\* blob; an error here is returned, and dropped by Download
WorkerCreate(w) ==
  /\ Running /\ wpc[w] = "Create"
  /\ LET m == wcur[w] IN
     \E answer \in Answers({"created"}, {"create error"}) :
       /\ faults' = Spend(answer, {"created"})
       /\ IF answer = "created"
            THEN /\ cache' = [cache EXCEPT ![Blob(m)] = "partial"]
                 /\ ops' = Log(ops, m.id, "create blob")
                 /\ wpc' = [wpc EXCEPT ![w] = "Copy"]
                 /\ wbody' = wbody
            ELSE /\ wpc' = [wpc EXCEPT ![w] = "Open"]
                 /\ wbody' = [wbody EXCEPT ![w] = ""]
                 /\ UNCHANGED <<cache, ops>>
  /\ UNCHANGED <<proc, exitCode, pipeVars, envVars, wg, wcur, wi, wurl,
                 resultSenders, mfSenders, aggVars, disk, processed, emitted,
                 arrivals, taken, sent, logs, placed, aggAdds>>

\* What the blob holds once io.Copy has copied the body of resp into it
Copied(resp) == IF resp = "200" THEN "good" ELSE "bad"

\* downloadToCache, second half: io.Copy(out, r) and the deferred out.Close().
\* While another worker is writing the same file the content is whatever the
\* two writers leave.
WorkerCopy(w) ==
  /\ Running /\ wpc[w] = "Copy"
  /\ LET m == wcur[w] IN
     \E answer \in Answers({"copied"}, {"write error"}) :
       /\ faults' = Spend(answer, {"copied"})
       /\ \E content \in IF answer = "write error" THEN {"partial"}
                         ELSE IF Writing(Blob(m), w) # {}
                           THEN {"partial", Copied(wbody[w])}
                         ELSE {Copied(wbody[w])} :
            cache' = [cache EXCEPT ![Blob(m)] = content]
       /\ ops' = Log(ops, m.id, "write blob")
       /\ wpc' = [wpc EXCEPT ![w] = "Open"]
       /\ wbody' = [wbody EXCEPT ![w] = ""]
  /\ UNCHANGED <<proc, exitCode, pipeVars, envVars, wg, wcur, wi, wurl,
                 resultSenders, mfSenders, aggVars, disk, processed, emitted,
                 arrivals, taken, sent, logs, placed, aggAdds>>

\* os.Open(<blob>), extract(r, m.TargetFolder()), the .version file, return.
\* A blob another worker is still writing is read as far as it goes: the
\* extraction may fail or get through.
WorkerExtract(w) ==
  /\ Running /\ wpc[w] = "Open"
  /\ LET m == wcur[w]
         t == TargetFolder(m)
         racing == Writing(Blob(m), w) # {}
         opened == IF racing
                     THEN Log(Log(ops, m.id, "extract"), m.id, "blob being written")
                     ELSE Log(ops, m.id, "extract") IN
     IF cache[Blob(m)] = "none"
       THEN /\ ops' = Log(ops, m.id, Returned(NonRetryable))
            /\ AfterDownload(w, m, NonRetryable)
            /\ UNCHANGED <<disk, faults>>
       ELSE \E answer \in Answers({"ok"}, {"extract error", "version file error"}) :
            \E readable \in IF cache[Blob(m)] = "good" THEN {TRUE}
                            ELSE IF cache[Blob(m)] = "partial" /\ racing
                              THEN {TRUE, FALSE}
                            ELSE {FALSE} :
              /\ faults' = Spend(answer, {"ok"})
              /\ IF ~readable \/ answer # "ok"
                   THEN /\ disk' = [disk EXCEPT ![t] = [exists |-> TRUE, vfile |-> NoFile]]
                        /\ ops' = Log(opened, m.id, Returned(NonRetryable))
                        /\ AfterDownload(w, m, NonRetryable)
                   ELSE /\ disk' = [disk EXCEPT ![t] = [exists |-> TRUE, vfile |-> m.version]]
                        /\ ops' = Log(Log(opened, m.id, "write .version"),
                                      m.id, Returned(NoError))
                        /\ AfterDownload(w, m, NoError)
  /\ UNCHANGED <<proc, exitCode, pipeVars, envVars, wg, mfSenders, aggVars, cache,
                 processed, emitted, arrivals, taken, logs, placed, aggAdds>>

----------------------------------------------------------------------------
(* Aggregator: parseResults *)

\* Mutants: every error result taken as final; the willRetry test inverted
IsRetryNever(res) == FALSE

IsRetryInverted(res) == res.retryable /\ ~res.willRetry

\* if res.err.retryable == true && res.willRetry == true
IsRetry(res) == res.retryable /\ res.willRetry

\* Mutant: the downloadDeps test left out
DiscoversAlways(deps, file) == file.exists

\* if downloadDeps { mf := NewMetadataFile(...); if mf != nil {
Discovers(deps, file) == deps /\ file.exists

\* Mutant: the metadata file enqueued without being counted
AggAddMissing(n) == n

\* wg.Add(1) for a discovered metadata file, ahead of res.m.Processed()
AggAdd(n) == n + 1

\* Mutant: the metadata file looked for after a download only
ReachesDiscoveryUnlessSkipped(res) == ~res.err /\ ~res.skipped

\* The error branch ends in continue; the skipped test guards the
\* "Downloaded" line alone, so every result without error goes on to
\* if downloadDeps { ...
ReachesDiscovery(res) == ~res.err

\* go func... results <- r   meets   for res := range results; the result is
\* handled up to the wg.Add of a discovered metadata file
AggRecv ==
  /\ Running /\ apc = "recv" /\ ~IsClosed("results")
  /\ \E res \in resultSenders :
       LET file == NewMetadataFile(TargetFolder(res.m), disk)
           adds == ReachesDiscovery(res) /\ Discovers(~noDeps, file) IN
       /\ resultSenders' = resultSenders \ {res}
       /\ acur' = IF res.err THEN Nil ELSE res
       /\ IF res.err
            THEN IF IsRetry(res)
                   THEN /\ logs' = Log(logs, res.m.id, "Retrying")
                        /\ UNCHANGED <<downloadErrors, wg, proc, processed>>
                   ELSE /\ logs' = Log(logs, res.m.id, "Giving up")
                        /\ downloadErrors' = downloadErrors + 1
                        /\ Processed(res.m)
            ELSE /\ logs' = IF res.skipped THEN logs ELSE Log(logs, res.m.id, "Downloaded")
                 /\ UNCHANGED <<downloadErrors, proc, processed>>
                 /\ wg' = IF adds THEN AggAdd(wg) ELSE wg
       /\ apc' = IF res.err THEN "recv" ELSE "Processed"
       /\ mfSenders' = IF adds
                         THEN mfSenders \cup {file} ELSE mfSenders
       /\ aggAdds' = IF adds
                       THEN aggAdds + 1 ELSE aggAdds
  /\ UNCHANGED <<exitCode, pipeVars, envVars, workerVars, fsVars, emitted,
                 arrivals, taken, ops, sent, placed>>

\* res.m.Processed() at the end of the loop body
AggProcessed ==
  /\ Running /\ apc = "Processed"
  /\ Processed(acur.m)
  /\ apc' = "recv"
  /\ acur' = Nil
  /\ UNCHANGED <<exitCode, pipeVars, envVars, workerVars, resultSenders,
                 mfSenders, downloadErrors, fsVars, histVars>>

----------------------------------------------------------------------------
(* Go's channel rule: a send pending on a closed channel panics *)

SendPending(ch) ==
  CASE ch = "results" -> resultSenders # {}
    [] ch = "moduleFiles" -> mfSenders # {} \/ mainpc = "send"
    [] ch = "modules" -> ppc = "Process" /\ mf.ok /\ pidx <= Len(mf.decls)
    [] ch = "modulesDeduplicated" -> dpc = "send"
    [] OTHER -> FALSE

SendOnClosed ==
  /\ Running
  /\ \E i \in 1..Len(closed) : SendPending(closed[i])
  /\ proc' = "panicked"
  /\ UNCHANGED <<exitCode, pipeVars, envVars, wg, workerVars, resultSenders,
                 mfSenders, aggVars, fsVars, processed, histVars>>

----------------------------------------------------------------------------

Next ==
  \/ MainNewPuppetFile
  \/ MainSendPuppetfile
  \/ MainWait
  \/ MainClose
  \/ MainRecvDone
  \/ MainRecvErrorCount
  \/ MainExit
  \/ MetadataSend
  \/ ProcessEmit
  \/ ProcessReturn
  \/ ProcessError
  \/ DedupCheck
  \/ \E w \in Workers : DedupSend(w)
  \/ \E w \in Workers : WorkerRemoveAll(w)
  \/ \E w \in Workers : WorkerDownloadURL(w)
  \/ \E w \in Workers : WorkerFetch(w)
  \/ \E w \in Workers : WorkerCreate(w)
  \/ \E w \in Workers : WorkerCopy(w)
  \/ \E w \in Workers : WorkerExtract(w)
  \/ AggRecv
  \/ AggProcessed
  \/ SendOnClosed

Spec == Init /\ [][Next]_vars

----------------------------------------------------------------------------
(* Reading the history *)

Range(q) == { q[i] : i \in 1..Len(q) }

Has(h, x) == \E i \in 1..Len(h) : h[i] = x

NumOf(h, x) == Cardinality({ i \in 1..Len(h) : h[i] = x })

Last(h) == h[Len(h)]

IsReturn(x) == x \in {"return nil", "return retryable", "return error"}

\* The declaration arriving i-th at deduplicate is not the first for its target
LaterDuplicate(i) ==
  \E j \in 1..(i - 1) : TargetFolder(arrivals[j]) = TargetFolder(arrivals[i])

Dropped(id) == \E i \in 1..Len(arrivals) : arrivals[i].id = id /\ LaterDuplicate(i)

\* The aggregator has received a result for id that is not a will-retry
TerminalReceived(id) ==
  \E r \in sent \ resultSenders : r.m.id = id /\ ~r.willRetry

\* A worker has handed over the last result for id
Finished(id) == \E r \in sent : r.m.id = id /\ ~r.willRetry

PastWait == mainpc \notin {"NewPuppetFile", "send", "Wait"}

\* The Download calls of a history: where each starts, where it ends
Attempts(h) == { i \in 1..Len(h) : h[i] = "Download" }

AttemptEnd(h, i) ==
  IF \E j \in (i + 1)..Len(h) : IsReturn(h[j])
    THEN CHOOSE j \in (i + 1)..Len(h) :
           IsReturn(h[j]) /\ \A k \in (i + 1)..(j - 1) : ~IsReturn(h[k])
    ELSE Len(h)

Attempt(h, i) == SubSeq(h, i, AttemptEnd(h, i))

----------------------------------------------------------------------------
(* Claims *)

\* C1: exactly-once finalization.  Processed is never invoked twice for a
\* declaration; it is invoked only for a declaration a parser emitted, and
\* only once deduplicate dropped it or the aggregator received its terminal
\* (not will-retry) result; and once the driver's wait has returned it has
\* been invoked exactly once for every emitted declaration.
C1_ExactlyOnce ==
  /\ \A id \in DOMAIN processed :
       /\ processed[id] = 1
       /\ id \in emitted
       /\ Dropped(id) \/ TerminalReceived(id)
  /\ PastWait => \A id \in emitted : Count(processed, id) = 1

\* A run that exited with one declaration dropped by deduplicate and another
\* given up after retries.
C1_Witness ==
  /\ proc = "exited"
  /\ \E id \in emitted : Dropped(id) /\ Count(processed, id) = 1
  /\ \E id \in DOMAIN logs :
       /\ Has(logs[id], "Retrying") /\ Has(logs[id], "Giving up")
       /\ Count(processed, id) = 1

\* C2: deduplication.  Of the declarations that arrived at deduplicate with
\* the same target folder, the first is forwarded to the workers (or is being
\* offered to them) and every later one is never taken by a worker and has no
\* up-to-date check, removal or download; no target is taken twice.
C2_FirstWins ==
  /\ \A i \in 1..Len(arrivals) :
       IF LaterDuplicate(i)
         THEN arrivals[i].id \notin Range(taken) /\ arrivals[i].id \notin DOMAIN ops
         ELSE \/ arrivals[i].id \in Range(taken)
              \/ dpc = "send" /\ dcur.id = arrivals[i].id
  /\ \A i, j \in 1..Len(taken) : i # j => taken[i] # taken[j]
  /\ \A id \in Range(taken) : \E i \in 1..Len(arrivals) : arrivals[i].id = id

\* Two declarations of one target arrived, the first was downloaded, the
\* second has been dropped, and the run exited.
C2_Witness ==
  /\ proc = "exited"
  /\ \E i, j \in 1..Len(arrivals) :
       /\ i < j
       /\ TargetFolder(arrivals[i]) = TargetFolder(arrivals[j])
       /\ arrivals[i].name # arrivals[j].name
       /\ arrivals[i].id \in DOMAIN ops
       /\ Has(ops[arrivals[i].id], "extract")

\* C3: termination.  The process never stops anywhere but at an exit: in
\* every state some task can take a step, or the process has exited (os.Exit
\* in main, or log.Fatal).
C3_StopsOnlyAtExit == proc \in {"exited", "fatal"} \/ ENABLED Next

\* C4: retry cap.  Download is invoked at most 3 times for a declaration; every
\* call after the first directly follows a call that returned a retryable
\* error; a call that returned nil or a non-retryable error is the last.
C4_RetryCap ==
  \A id \in DOMAIN ops :
    LET h == ops[id] IN
    /\ Cardinality(Attempts(h)) <= 3
    /\ \A i \in Attempts(h) :
         (\E j \in Attempts(h) : j < i) => h[i - 1] = "return retryable"
    /\ \A i \in 1..Len(h) :
         h[i] \in {"return nil", "return error"} => i = Len(h)

\* A declaration given three Download calls, the last retryable too, and
\* another one whose only call returned a non-retryable error.
C4_Witness ==
  /\ \E id \in DOMAIN ops :
       /\ Cardinality(Attempts(ops[id])) = 3
       /\ Last(ops[id]) = "return retryable"
       /\ Finished(id)
  /\ \E id \in DOMAIN ops :
       /\ Cardinality(Attempts(ops[id])) = 1
       /\ Last(ops[id]) = "return error"
       /\ Finished(id)

\* C5: version-not-found is not retried.  A declaration whose first Download
\* found its version in no tag gets one Download call, no will-retry result
\* and one terminal failure result.
C5_NotFoundOnce ==
  \A id \in DOMAIN ops :
    LET h == ops[id] IN
    (\E i \in 1..Len(h) :
        h[i] = "version not found" /\ NumOf(SubSeq(h, 1, i), "Download") = 1)
    => /\ NumOf(h, "Download") = 1
       /\ \A r \in sent : r.m.id = id => ~r.willRetry
       /\ NumOf(History(logs, id), "Retrying") = 0
       /\ NumOf(History(logs, id), "Giving up") <= 1

\* C6: exit code.  The value handed to os.Exit is the number of declarations
\* whose last Download call returned an error.
FailedIds ==
  { id \in DOMAIN ops : Last(ops[id]) \in {"return error", "return retryable"} }

C6_ExitCode == proc = "exited" => exitCode = Cardinality(FailedIds)

\* Exit 1 after one declaration failed past a retry and another was
\* downloaded, or skipped, or dropped.
C6_Witness ==
  /\ proc = "exited"
  /\ exitCode = 1
  /\ Cardinality(emitted) >= 2
  /\ \E id \in FailedIds : Has(History(logs, id), "Retrying")

\* C7: bounded parallelism.  The declarations a worker has taken and not yet
\* handed a terminal result for are at most numWorkers.
InFlight == { id \in Range(taken) : ~Finished(id) }

C7_BoundedParallelism == Cardinality(InFlight) <= numWorkers

\* More than one worker, and every worker holds a declaration in flight.
C7_Witness ==
  /\ numWorkers > 1
  /\ Cardinality(InFlight) = numWorkers
  /\ \A w \in Workers : wpc[w] # "recv"

\* C8 as stated: a Download call that starts with the blob of the declared
\* version in the cache slot issues no network request, neither for the tags
\* listing nor for the tarball.
CachedAttempts(h) == { i \in Attempts(h) : h[i + 1] = "blob cached" }

C8_NoRequestWhenCached ==
  \A id \in DOMAIN ops :
    \A i \in CachedAttempts(ops[id]) :
      /\ ~Has(Attempt(ops[id], i), "GET tags")
      /\ ~Has(Attempt(ops[id], i), "GET tarball")

\* C8, amended: a Download call that starts with the blob of the declared
\* version in the cache slot requests the tags listing, requests no tarball
\* and leaves the blob unwritten; once it has returned, it has extracted
\* from the cached blob unless the tags request failed or listed no such
\* version.
C8_NoTarballWhenCached ==
  \A id \in DOMAIN ops :
    \A i \in CachedAttempts(ops[id]) :
      LET a == Attempt(ops[id], i) IN
      /\ a[3] = "GET tags"
      /\ ~Has(a, "GET tarball")
      /\ ~Has(a, "create blob")
      /\ ~Has(a, "write blob")
      /\ IsReturn(Last(a)) =>
           \/ a[4] = "extract"
           \/ a[4] = "version not found"
           \/ a[4] = "return retryable"

\* A Download call that found the blob cached, extracted it and returned nil.
C8_Witness ==
  \E id \in DOMAIN ops :
    \E i \in CachedAttempts(ops[id]) :
      /\ Has(Attempt(ops[id], i), "extract")
      /\ Last(Attempt(ops[id], i)) = "return nil"

\* C9: idempotence.  When every declaration reachable from the manifest is
\* up to date on the disk the run starts from, no worker does anything but
\* the up-to-date check, every result is a skipped one, and disk and cache
\* stay as they were.
Declared(d) ==
  [name |-> d.name, version |-> d.version, installPath |-> d.installPath,
   envRoot |-> EnvRoot]

UpToDateAtStart(d) ==
  LET t == disk0[TargetFolder(Declared(d))] IN
  t.exists /\ (d.version = "" \/ t.vfile = d.version)

RECURSIVE Reachable(_, _)
Reachable(decls, n) ==
  IF n = 0 \/ noDeps THEN decls
  ELSE Reachable(
         decls \cup UNION { Range(MetadataOf(TargetFolder(Declared(d)))) :
                            d \in { x \in decls :
                                      disk0[TargetFolder(Declared(x))].exists } },
         n - 1)

AllUpToDateAtStart ==
  \A d \in Reachable(Range(pf.decls), Cardinality(Targets)) : UpToDateAtStart(d)

C9_Idempotence ==
  AllUpToDateAtStart =>
    /\ \A id \in DOMAIN ops : ops[id] = <<"IsUpToDate">>
    /\ \A r \in sent : r.skipped /\ ~r.err /\ ~r.willRetry
    /\ disk = disk0
    /\ cache = cache0

\* Such a run, with a declaration of the manifest and one discovered from a
\* metadata file both skipped, has exited.
C9_Witness ==
  /\ AllUpToDateAtStart
  /\ proc = "exited"
  /\ \E id \in DOMAIN ops : id[1] = Puppetfile
  /\ \E id \in DOMAIN ops : id[1] # Puppetfile

\* C10: with --no-deps the aggregator never adds to the pending-work counter
\* and never starts a sender of a metadata file, and nothing but the manifest
\* is received from the module-file channel.
C10_NoDeps ==
  noDeps =>
    /\ aggAdds = 0
    /\ mfSenders = {}
    /\ \A i \in 1..Len(placed) : placed[i] = Puppetfile

\* A --no-deps run that downloaded a module shipping a metadata.json and
\* exited.
C10_Witness ==
  /\ noDeps
  /\ proc = "exited"
  /\ \E id \in DOMAIN logs :
       /\ Has(logs[id], "Downloaded")
       /\ \E i \in 1..Len(arrivals) :
            arrivals[i].id = id /\ HasMetadata(TargetFolder(arrivals[i]))

\* The units of pending work still owed: the declarations emitted and not yet
\* marked processed, and the module files counted and not yet parsed.
Unfinalized == { id \in emitted : Count(processed, id) = 0 }

FilesInHand ==
  Cardinality(mfSenders)
    + (IF mainpc = "send" THEN 1 ELSE 0)
    + (IF ppc = "Process" THEN 1 ELSE 0)

Outstanding == Cardinality(Unfinalized) + FilesInHand

\* The metadata files the parser stage received, found malformed and closed
ParseFailed ==
  { i \in 1..Len(placed) :
      /\ placed[i] # Puppetfile
      /\ Malformed(SubSeq(placed[i], 1, Len(placed[i]) - 1))
      /\ ~(ppc = "Process" /\ i = Len(placed)) }

\* C11: a malformed metadata file does not stop the pipeline.  Once the
\* parser stage has logged and closed a metadata file whose Process returned
\* a parse error, the unit counted for that file has been released (the
\* counter equals the work still owed), the parser stage is draining again,
\* and the run does not come to a stop before its exit.
C11_MalformedReleased ==
  ParseFailed # {} =>
    /\ wg = Outstanding
    /\ ppc \in {"recv", "Process", "exited"}
    /\ proc # "running" \/ ENABLED Next

\* C12: shutdown ordering.  No channel is closed before the driver's wait has
\* returned on a counter of zero; the channels are closed in the order
\* modules, modulesDeduplicated, moduleFiles, results; and the process has
\* exited through os.Exit only with all four closed, the parser stage and the
\* deduplicator gone after their done signal, and the aggregator gone after
\* publishing the failure count the exit code repeats.
C12_ShutdownOrder ==
  /\ closed # <<>> => PastWait /\ wg = 0
  /\ closed = SubSeq(CloseOrder, 1, Len(closed))
  /\ mainpc \in {"done1", "done2", "errorCount", "Exit"} => closed = CloseOrder
  /\ mainpc \in {"errorCount", "Exit"} => ppc = "exited" /\ dpc = "exited"
  /\ mainpc = "Exit" => apc = "exited" /\ nErr = downloadErrors
  /\ proc = "exited" => mainpc = "Exit" /\ exitCode = downloadErrors

\* A run that discovered a metadata file, counted a failure and exited.
C12_Witness ==
  /\ proc = "exited"
  /\ Len(placed) = 2
  /\ exitCode = 1

\* C13: every result reaches the aggregator.  When the process has ended
\* through os.Exit, or crashed, no result a worker produced is still waiting
\* to be sent, and a declaration whose Download returned a retryable error k
\* times and then nil has exactly k "Retrying" lines and one "Downloaded".
C13_AllResultsReceived ==
  proc \in {"exited", "panicked"} =>
    /\ resultSenders = {}
    /\ \A id \in DOMAIN ops :
         Last(ops[id]) = "return nil" =>
           /\ NumOf(History(logs, id), "Retrying") = NumOf(ops[id], "return retryable")
           /\ NumOf(History(logs, id), "Downloaded") = 1

\* C14: channels are closed only after their producers have drained.  No
\* closed channel has a send pending on it, when it is closed or later: not
\* from the driver, the parser stage or the deduplicator, and not from a
\* goroutine spawned to send one result or one metadata file.
C14_ClosedAfterDrained ==
  \A i \in 1..Len(closed) : ~SendPending(closed[i])

\* The metadata files the aggregator enqueued, and the results it received
Enqueued == (Range(placed) \ {Puppetfile}) \cup { f.filename : f \in mfSenders }

Received == sent \ resultSenders

MetadataFor(r) == MetadataPath(TargetFolder(r.m))

\* C15 as stated: the aggregator enqueues a metadata file only for a result
\* with no error that is not skipped; a skipped result has no log line, no
\* metadata file enqueued and no counter increment.
C15_OnlyForSuccess ==
  /\ \A f \in Enqueued :
       \E r \in Received : MetadataFor(r) = f /\ ~r.err /\ ~r.skipped
  /\ \A r \in Received :
       r.skipped => MetadataFor(r) \notin Enqueued /\ History(logs, r.m.id) = <<>>

\* C15, amended: the aggregator enqueues a metadata file only for a result
\* with no error, skipped or not, and with discovery enabled it does so for
\* every such result whose module ships a metadata.json, one counter
\* increment each; a skipped result has no log line and at most one
\* mark-processed call; for a terminal error result nothing is enqueued.
C15_ForEveryResultWithoutError ==
  /\ \A f \in Enqueued :
       \E r \in Received : MetadataFor(r) = f /\ ~r.err /\ ~r.willRetry
  /\ \A r \in Received :
       /\ (~r.err /\ ~noDeps /\ HasMetadata(TargetFolder(r.m)))
            => MetadataFor(r) \in Enqueued
       /\ (r.err /\ ~r.willRetry) => MetadataFor(r) \notin Enqueued
       /\ r.skipped => /\ History(logs, r.m.id) = <<>>
                        /\ Count(processed, r.m.id) <= 1
                        /\ apc = "recv" => Count(processed, r.m.id) = 1
  /\ aggAdds = Cardinality(Enqueued)

\* A skipped result whose metadata file the parser stage received, in a run
\* that exited.
C15_Witness ==
  /\ proc = "exited"
  /\ \E r \in Received : r.skipped /\ MetadataFor(r) \in Range(placed)

\* C16: no premature shutdown.  The counter is never negative; while it is
\* zero no emitted declaration is short of its mark-processed call and no
\* module file is counted and waiting to be sent, to be received or to be
\* parsed; and when the aggregator is about to mark a declaration processed,
\* the metadata file it discovered for it has already been counted.
C16_NoPrematureShutdown ==
  /\ wg >= 0
  /\ wg = 0 => Unfinalized = {} /\ FilesInHand = 0
  /\ apc = "Processed" =>
       /\ wg >= 1 + Cardinality(mfSenders)
       /\ (~noDeps /\ HasMetadata(TargetFolder(acur.m))) => MetadataFor(acur) \in Enqueued

\* The aggregator has counted a metadata file and is about to mark its
\* declaration processed, with nothing else pending.
C16_Witness ==
  /\ apc = "Processed"
  /\ MetadataFor(acur) \in { f.filename : f \in mfSenders }
  /\ wg = 2
  /\ Cardinality(Unfinalized) = 1

\* The declaration that arrived at deduplicate under id
ArrivedAs(id) == CHOOSE m \in Range(arrivals) : m.id = id

\* C17: removal ordering.  A worker starts on a declaration with the
\* up-to-date check, once; whatever else it does for it starts with the one
\* removal of the target folder, so the removal precedes the first Download
\* call, which finds the folder gone; a declaration with a skipped result has
\* had the check only, and its target folder is as the run found it.
C17_RemovalOrder ==
  /\ \A id \in DOMAIN ops :
       LET h == ops[id] IN
       /\ h[1] = "IsUpToDate" /\ NumOf(h, "IsUpToDate") = 1
       /\ Len(h) >= 2 => h[2] = "RemoveAll" /\ NumOf(h, "RemoveAll") = 1
       /\ \A r \in sent :
            (r.m.id = id /\ r.skipped) =>
              /\ h = <<"IsUpToDate">>
              /\ disk[TargetFolder(r.m)] = disk0[TargetFolder(r.m)]
  /\ \A w \in Workers :
       (wpc[w] = "downloadURL" /\ wi[w] = 0) =>
         /\ ~disk[TargetFolder(wcur[w])].exists
         /\ ops[wcur[w].id] = <<"IsUpToDate", "RemoveAll">>

\* A stale installed module was removed and downloaded again while another
\* declaration was skipped.
C17_Witness ==
  /\ \E id \in DOMAIN ops :
       /\ disk0[TargetFolder(ArrivedAs(id))].exists
       /\ Has(ops[id], "RemoveAll") /\ Last(ops[id]) = "return nil"
  /\ \E r \in sent : r.skipped

\* C18: an HTTP error on the tarball request is retryable and leaves the
\* cache alone.  A Download call whose tarball request was answered with a
\* status other than 2xx creates and writes no blob, and returns a retryable
\* error.
C18_HTTPErrorRetryable ==
  \A id \in DOMAIN ops :
    \A i \in Attempts(ops[id]) :
      LET a == Attempt(ops[id], i) IN
      Has(a, "status 503") =>
        /\ ~Has(a, "create blob")
        /\ ~Has(a, "write blob")
        /\ IsReturn(Last(a)) => Last(a) = "return retryable"

\* C20: cache blob reads see complete blobs.  No worker opens and extracts a
\* blob that another worker has created and has not finished writing.
C20_CompleteReads ==
  \A id \in DOMAIN ops : ~Has(ops[id], "blob being written")

\* The workers that hold a declaration
Busy == { w \in Workers : wpc[w] # "recv" }

\* C19: exclusive ownership of target folders.  Two workers never hold
\* declarations of the same target folder at the same time; over the whole
\* run no two declarations taken by workers have the same target folder, and
\* nothing is checked, removed or downloaded but for a declaration a worker
\* took, each taken once.
C19_ExclusiveOwnership ==
  /\ \A v, w \in Busy :
       v # w => /\ TargetFolder(wcur[v]) # TargetFolder(wcur[w])
                /\ wcur[v].id # wcur[w].id
  /\ \A w \in Busy : wcur[w].id \in Range(taken)
  /\ \A i, j \in 1..Len(taken) :
       i # j => /\ taken[i] # taken[j]
                /\ TargetFolder(ArrivedAs(taken[i])) # TargetFolder(ArrivedAs(taken[j]))
  /\ DOMAIN ops \subseteq Range(taken)

\* Two workers at work at once on declarations of the same module name,
\* installed in different folders.
C19_Witness ==
  \E v, w \in Busy :
    /\ v # w
    /\ wcur[v].name = wcur[w].name
    /\ wpc[v] = "Open" /\ wpc[w] = "Open"

=============================================================================
